---- MODULE Spec2Model ----
(***************************************************************************)
(* Model of ossfs.py: the OSS class, a FUSE adapter that shows an Aliyun   *)
(* OSS bucket as a read-only tree.  Strings (paths, keys, names) are       *)
(* sequences of one-character strings, so that Python's slicing and        *)
(* concatenation are computed character by character.                      *)
(***************************************************************************)
EXTENDS Integers, Sequences, FiniteSets, TLC

VARIABLES
    attrs,    \* self.attrs: path -> attribute dict
    bucket,   \* the objects of the bucket: key -> [size, last_modified]
    now,      \* int(time.time())
    uid,      \* self.uid
    gid,      \* self.gid
    keys,     \* the keys the other clients of the bucket write in this run
    gen,      \* the generator object readdir() returned, while it is alive
    exp,      \* the latest expansion a readdir body performed, and whether
              \* the bucket is as it was then
    last      \* the latest completed call: arguments, outcome, store requests

vars == <<attrs, bucket, now, uid, gid, keys, gen, exp, last>>

-----------------------------------------------------------------------------
(* Bounds *)

MaxTime == 1

-----------------------------------------------------------------------------
(* Python string primitives *)

Min(a, b) == IF a <= b THEN a ELSE b
Max(a, b) == IF a >= b THEN a ELSE b

\* s[n:]
From(s, n) == IF n >= Len(s) THEN <<>> ELSE SubSeq(s, n + 1, Len(s))

\* (mutation) the trailing '/' of a common prefix is kept
DropNothing(s) == s

\* s[:-1]
DropLast(s) == IF Len(s) <= 1 THEN <<>> ELSE SubSeq(s, 1, Len(s) - 1)

\* s.startswith(p)
StartsWith(s, p) == Len(p) <= Len(s) /\ \A i \in 1..Len(p) : s[i] = p[i]

\* the elements of a sequence
Range(s) == {s[i] : i \in 1..Len(s)}

\* code points of the characters that occur in keys and paths
Ord(c) ==
    CASE c = "."  -> 46
      [] c = "/"  -> 47
      [] c = "a"  -> 97
      [] c = "b"  -> 98
      [] c = "c"  -> 99
      [] c = "f"  -> 102
      [] c = "t"  -> 116
      [] c = "x"  -> 120

RECURSIVE LexLess(_, _)
LexLess(s, t) ==
    IF t = <<>> THEN FALSE
    ELSE IF s = <<>> THEN TRUE
    ELSE IF Ord(Head(s)) # Ord(Head(t)) THEN Ord(Head(s)) < Ord(Head(t))
    ELSE LexLess(Tail(s), Tail(t))

\* a set of strings as the sequence in ascending byte order
RECURSIVE Sorted(_)
Sorted(S) ==
    IF S = {} THEN <<>>
    ELSE LET m == CHOOSE x \in S : \A y \in S \ {x} : LexLess(x, y)
         IN  <<m>> \o Sorted(S \ {m})

-----------------------------------------------------------------------------
(* The bucket: the keys the model puts into it, and the store's two calls *)

Populations == {
    { <<"a", "/", "b", ".", "t", "x", "t">>, <<"a", "/", "c", "/">> },
    { <<"a">>, <<"a", "/", "b", ".", "t", "x", "t">> },
    { <<"f">> },
    { <<".">>, <<"/", "x">>, <<"a", "/", "/", "x">> } }

SizesOf(k) ==
    IF k = <<"a", "/", "b", ".", "t", "x", "t">> THEN {10}
    ELSE IF k = <<"f">> THEN {0, 3}
    ELSE IF k = <<"a">> THEN {3}
    ELSE {0}

\* the content of an object of the given size: byte i holds i
Content(size) == [i \in 1..size |-> i - 1]

HasDelimiter(s) == "/" \in Range(s)

\* s up to and including its first '/'
UpToDelimiter(s) ==
    LET i == CHOOSE j \in 1..Len(s) : s[j] = "/" /\ \A h \in 1..(j - 1) : s[h] # "/"
    IN  SubSeq(s, 1, i)

\* bucket.list_objects(prefix=prefix, delimiter='/').prefix_list
prefix_list(b, prefix) ==
    Sorted({ prefix \o UpToDelimiter(From(k, Len(prefix))) :
               k \in {x \in DOMAIN b : StartsWith(x, prefix)
                                       /\ HasDelimiter(From(x, Len(prefix)))} })

\* bucket.list_objects(prefix=prefix, delimiter='/').object_list
object_list(b, prefix) ==
    LET ks == Sorted({x \in DOMAIN b : StartsWith(x, prefix)
                                       /\ ~HasDelimiter(From(x, Len(prefix)))})
    IN  [i \in 1..Len(ks) |->
            [key |-> ks[i], size |-> b[ks[i]].size,
             last_modified |-> b[ks[i]].last_modified]]

\* The bodies bucket.get_object(key, byte_range=(begin, end)) can answer with
\* when it does not fail: the bytes begin..end of the object for a range the
\* object satisfies; the store is not bound to anything for a range that is
\* malformed (a negative bound, begin > end) or lies outside the object, and
\* OSS answers those with the whole object.
get_object(b, key, begin, end) ==
    IF key \notin DOMAIN b THEN {}
    ELSE LET size == b[key].size
             body == Content(size)
         IN  IF 0 <= begin /\ begin <= end /\ begin < size
             THEN {SubSeq(body, begin + 1, Min(end, size - 1) + 1)}
             ELSE {body}

\* stream.read(amount)
ReadAmount(body, amount) ==
    IF amount >= Len(body) THEN body ELSE SubSeq(body, 1, Max(amount, 0))

-----------------------------------------------------------------------------
(* Helpers of the class *)

S_IFREG_644 == 33188
S_IFDIR_755 == 16877
DirSize == 4096

fileattr(size, lastModified) ==
    [st_atime |-> lastModified, st_ctime |-> lastModified, st_gid |-> gid,
     st_mode |-> S_IFREG_644, st_mtime |-> lastModified, st_size |-> size,
     st_uid |-> uid]

dirattr(lastModified) ==
    [st_atime |-> lastModified, st_ctime |-> lastModified, st_gid |-> gid,
     st_mode |-> S_IFDIR_755, st_mtime |-> lastModified, st_size |-> DirSize,
     st_uid |-> uid]

DirRecord(t) == [type |-> "d", lastModified |-> t]
FileRecord(f) == [type |-> "f", size |-> f.size, lastModified |-> f.last_modified]

\* (mutation) the insert rebinds self.attrs to a dict that holds the new entry only
CacheReplace(cache, fullpath, record) ==
    [p \in {fullpath} |-> record]

\* self.attrs[fullpath] = record
CacheInsert(cache, fullpath, record) ==
    [p \in DOMAIN cache \cup {fullpath} |->
        IF p = fullpath THEN record ELSE cache[p]]

Root == <<"/">>

\* the paths the filesystem runtime calls the adapter with
Paths == {
    Root,
    <<"/", "a">>,
    <<"/", "a", "/", "c">>,
    <<"/", "a", "/", "b", ".", "t", "x", "t">>,
    <<"/", "f">>,
    <<"/", "x">> }

Lengths == {0, 2, 5}
Offsets == {0, 1, 3}

\* read is called on the root, on a path no key gives, and on /f in the
\* runs whose bucket is written under the key f
ReadPaths == { Root, <<"/", "x">> } \cup { p \in {<<"/", "f">>} : From(p, 1) \in keys }

\* the (length, offset) pairs read is called with: every pair on the path
\* that can be a file, two of them on the others
ReadArgs(path) ==
    IF path = <<"/", "f">> THEN Lengths \X Offsets ELSE {<<5, 0>>, <<0, 3>>}

ReaddirPaths == { Root, <<"/", "a">>, <<"/", "a", "/", "c">> }


Uids == {1000}

NoGen == [state |-> "none", path |-> <<>>, dirents |-> <<>>, pos |-> 0, reqs |-> <<>>]

Call(op, path, length, offset, status, data, stat, reqs) ==
    [op |-> op, path |-> path, length |-> length, offset |-> offset,
     status |-> status, data |-> data, stat |-> stat, reqs |-> reqs]

-----------------------------------------------------------------------------
(* OSS.__init__ *)

Init ==
    /\ now = 0
    /\ attrs = [p \in {Root} |-> DirRecord(now)]
    /\ bucket = [k \in {} |-> [size |-> 0, last_modified |-> 0]]
    /\ uid \in Uids
    /\ gid = uid
    /\ keys \in Populations
    /\ gen = NoGen
    /\ exp = [path |-> <<>>, dirents |-> <<>>, inserted |-> <<>>,
              unchanged |-> FALSE]
    /\ last = Call("init", <<>>, 0, 0, "ok", <<>>, <<>>, <<>>)

-----------------------------------------------------------------------------
(* OSS.getattr *)

\* (mutation) _fileattr is called with its two arguments in the other order
getattrSwapped(path) ==
    IF path \notin DOMAIN attrs
    THEN [status |-> "FileNotFoundError", stat |-> <<>>]
    ELSE LET attr == attrs[path]
         IN  IF attr.type = "d"
             THEN [status |-> "ok", stat |-> <<dirattr(attr.lastModified)>>]
             ELSE [status |-> "ok", stat |-> <<fileattr(attr.lastModified, attr.size)>>]

getattr(path) ==
    IF path \notin DOMAIN attrs
    THEN [status |-> "FileNotFoundError", stat |-> <<>>]
    ELSE LET attr == attrs[path]
         IN  IF attr.type = "d"
             THEN [status |-> "ok", stat |-> <<dirattr(attr.lastModified)>>]
             ELSE [status |-> "ok", stat |-> <<fileattr(attr.size, attr.lastModified)>>]

\* the runtime also asks for the entries a listing named, joined to the
\* directory's path with a '/'
GetattrPaths == Paths \cup { exp.path \o <<"/">> \o exp.dirents[i] : i \in 1..Len(exp.dirents) }

Getattr(path) ==
    /\ gen.state = "none"
    /\ last' = Call("getattr", path, 0, 0, getattr(path).status, <<>>,
                    getattr(path).stat, <<>>)
    /\ UNCHANGED <<attrs, bucket, now, uid, gid, keys, gen, exp>>

-----------------------------------------------------------------------------
(* OSS.readdir: a generator function.  The call builds the generator and   *)
(* runs nothing; the first next() runs the body down to the first yield;   *)
(* each later next() delivers one more name; the last one ends it.         *)

\* (mutation) the prefix lacks its trailing '/'
ReaddirPrefixBare(path) == IF Len(path) = 1 THEN <<>> ELSE From(path, 1)

ReaddirPrefix(path) == IF Len(path) = 1 THEN <<>> ELSE From(path, 1) \o <<"/">>
\* (mutation) offset = length in the else branch: the name keeps the '/'
ReaddirOffsetShort(path) == IF Len(path) = 1 THEN 1 ELSE Len(path)

ReaddirOffset(path) == IF Len(path) = 1 THEN 1 ELSE Len(path) + 1

ListRequest(prefix) == [call |-> "list_objects", prefix |-> prefix, delimiter |-> "/"]

\* (mutation) a path that is cached already keeps its record
RECURSIVE ScanPrefixesKeep(_, _, _, _)
ScanPrefixesKeep(plist, offset, t, acc) ==
    IF plist = <<>> THEN acc
    ELSE LET d == Head(plist)
             fullpath == <<"/">> \o DropLast(d)
             value == From(fullpath, offset)
         IN  ScanPrefixesKeep(Tail(plist), offset, t,
                IF Len(value) > 0 /\ value \notin acc.check
                THEN [check |-> acc.check \cup {value},
                      dirents |-> Append(acc.dirents, value),
                      attrs |-> IF fullpath \in DOMAIN acc.attrs THEN acc.attrs
                                ELSE CacheInsert(acc.attrs, fullpath, DirRecord(t)),
                      inserted |-> acc.inserted \cup {fullpath}]
                ELSE acc)

\* for d in result.prefix_list
RECURSIVE ScanPrefixes(_, _, _, _)
ScanPrefixes(plist, offset, t, acc) ==
    IF plist = <<>> THEN acc
    ELSE LET d == Head(plist)
             fullpath == <<"/">> \o DropLast(d)
             value == From(fullpath, offset)
         IN  ScanPrefixes(Tail(plist), offset, t,
                IF Len(value) > 0 /\ value \notin acc.check
                THEN [check |-> acc.check \cup {value},
                      dirents |-> Append(acc.dirents, value),
                      attrs |-> CacheInsert(acc.attrs, fullpath, DirRecord(t)),
                      inserted |-> acc.inserted \cup {fullpath}]
                ELSE acc)

\* (mutation) the object loop does not look the name up in check
RECURSIVE ScanObjectsNoCheck(_, _, _)
ScanObjectsNoCheck(olist, offset, acc) ==
    IF olist = <<>> THEN acc
    ELSE LET f == Head(olist)
             fullpath == <<"/">> \o f.key
             value == From(fullpath, offset)
         IN  ScanObjectsNoCheck(Tail(olist), offset,
                IF Len(value) > 0
                THEN [check |-> acc.check \cup {value},
                      dirents |-> Append(acc.dirents, value),
                      attrs |-> CacheInsert(acc.attrs, fullpath, FileRecord(f)),
                      inserted |-> acc.inserted \cup {fullpath}]
                ELSE acc)

\* for f in result.object_list
RECURSIVE ScanObjects(_, _, _)
ScanObjects(olist, offset, acc) ==
    IF olist = <<>> THEN acc
    ELSE LET f == Head(olist)
             fullpath == <<"/">> \o f.key
             value == From(fullpath, offset)
         IN  ScanObjects(Tail(olist), offset,
                IF Len(value) > 0 /\ value \notin acc.check
                THEN [check |-> acc.check \cup {value},
                      dirents |-> Append(acc.dirents, value),
                      attrs |-> CacheInsert(acc.attrs, fullpath, FileRecord(f)),
                      inserted |-> acc.inserted \cup {fullpath}]
                ELSE acc)

\* (mutation) the expansion starts from a cache that holds the root only
ExpandFresh(cache, b, path, t) ==
    LET prefix == ReaddirPrefix(path)
        offset == ReaddirOffset(path)
        start == [check |-> {<<".">>, <<".", ".">>},
                  dirents |-> << <<".">>, <<".", ".">> >>,
                  attrs |-> [p \in {Root} |-> cache[Root]],
                  inserted |-> {}]
    IN  ScanObjects(object_list(b, prefix), offset,
            ScanPrefixes(prefix_list(b, prefix), offset, t, start))

\* (mutation) the two loops run in the other order: objects, then prefixes
ExpandObjectsFirst(cache, b, path, t) ==
    LET prefix == ReaddirPrefix(path)
        offset == ReaddirOffset(path)
        start == [check |-> {<<".">>, <<".", ".">>},
                  dirents |-> << <<".">>, <<".", ".">> >>,
                  attrs |-> cache,
                  inserted |-> {}]
    IN  ScanPrefixes(prefix_list(b, prefix), offset, t,
            ScanObjects(object_list(b, prefix), offset, start))

\* the body of readdir from the listing's result to the first yield
Expand(cache, b, path, t) ==
    LET prefix == ReaddirPrefix(path)
        offset == ReaddirOffset(path)
        start == [check |-> {<<".">>, <<".", ".">>},
                  dirents |-> << <<".">>, <<".", ".">> >>,
                  attrs |-> cache,
                  inserted |-> {}]
    IN  ScanObjects(object_list(b, prefix), offset,
            ScanPrefixes(prefix_list(b, prefix), offset, t, start))

ReaddirCall(path) ==
    /\ gen.state = "none"
    /\ gen' = [state |-> "created", path |-> path, dirents |-> <<>>, pos |-> 0,
               reqs |-> <<>>]
    /\ last' = Call("readdir", path, 0, 0, "running", <<>>, <<>>, <<>>)
    /\ UNCHANGED <<attrs, bucket, now, uid, gid, keys, exp>>

\* (mutation) the names are computed and '.' is yielded before the inserts
ReaddirBodyLazy ==
    /\ gen.state = "created"
    /\ LET r == Expand(attrs, bucket, gen.path, now)
       IN  /\ attrs' = attrs
           /\ exp' = [path |-> gen.path, dirents |-> r.dirents,
                      inserted |-> [p \in r.inserted |-> r.attrs[p]],
                      unchanged |-> TRUE]
           /\ gen' = [gen EXCEPT !.state = "suspended", !.dirents = r.dirents,
                                 !.pos = 1,
                                 !.reqs = <<ListRequest(ReaddirPrefix(gen.path))>>]
    /\ UNCHANGED <<bucket, now, uid, gid, keys, last>>

\* first next(): the listing succeeds, the loops run, '.' is yielded
ReaddirBody ==
    /\ gen.state = "created"
    /\ LET r == Expand(attrs, bucket, gen.path, now)
       IN  /\ attrs' = r.attrs
           /\ exp' = [path |-> gen.path, dirents |-> r.dirents,
                      inserted |-> [p \in r.inserted |-> r.attrs[p]],
                      unchanged |-> TRUE]
           /\ gen' = [gen EXCEPT !.state = "suspended", !.dirents = r.dirents,
                                 !.pos = 1,
                                 !.reqs = <<ListRequest(ReaddirPrefix(gen.path))>>]
    /\ UNCHANGED <<bucket, now, uid, gid, keys, last>>

\* (mutation) a path that is not cached as a directory is rejected
ReaddirRejectsUncached ==
    /\ gen.state = "created"
    /\ gen' = NoGen
    /\ IF gen.path \in DOMAIN attrs /\ attrs[gen.path].type = "d"
       THEN last' = Call("readdir", gen.path, 0, 0, "StoreError", <<>>, <<>>,
                         <<ListRequest(ReaddirPrefix(gen.path))>>)
       ELSE last' = Call("readdir", gen.path, 0, 0, "FileNotFoundError", <<>>,
                         <<>>, <<>>)
    /\ UNCHANGED <<attrs, bucket, now, uid, gid, keys, exp>>

\* (mutation) the directory itself is recorded before the listing is asked for
ReaddirListFailsDirty ==
    /\ gen.state = "created"
    /\ gen' = NoGen
    /\ attrs' = CacheInsert(attrs, gen.path, DirRecord(now))
    /\ last' = Call("readdir", gen.path, 0, 0, "StoreError", <<>>, <<>>,
                    <<ListRequest(ReaddirPrefix(gen.path))>>)
    /\ UNCHANGED <<bucket, now, uid, gid, keys, exp>>

\* first next(): bucket.list_objects raises, and so does the generator
ReaddirListFails ==
    /\ gen.state = "created"
    /\ gen' = NoGen
    /\ last' = Call("readdir", gen.path, 0, 0, "StoreError", <<>>, <<>>,
                    <<ListRequest(ReaddirPrefix(gen.path))>>)
    /\ UNCHANGED <<attrs, bucket, now, uid, gid, keys, exp>>

\* next(): for r in dirents: yield r
ReaddirYield ==
    /\ gen.state = "suspended"
    /\ gen.pos < Len(gen.dirents)
    /\ gen' = [gen EXCEPT !.pos = gen.pos + 1]
    /\ UNCHANGED <<attrs, bucket, now, uid, gid, keys, exp, last>>

\* next() after the last name: the generator returns
ReaddirReturn ==
    /\ gen.state = "suspended"
    /\ gen.pos = Len(gen.dirents)
    /\ gen' = NoGen
    /\ last' = Call("readdir", gen.path, 0, 0, "ok", gen.dirents, <<>>, gen.reqs)
    /\ UNCHANGED <<attrs, bucket, now, uid, gid, keys, exp>>

-----------------------------------------------------------------------------
(* OSS.read *)

RangeRequest(key, begin, end) ==
    [call |-> "get_object", key |-> key, begin |-> begin, end |-> end]

\* lines 155-159: the clamped range, the fetch, and stream.read(amount);
\* every outcome the store allows
readFile(path, size, length, offset) ==
    LET begin == Min(size, offset) - 1
        end == Min(size, offset + length) - 1
        amount == Min(size, length)
        key == From(path, 1)
        req == <<RangeRequest(key, begin, end)>>
    IN  {[status |-> "StoreError", data |-> <<>>, reqs |-> req]}
        \cup {[status |-> "ok", data |-> ReadAmount(body, amount), reqs |-> req] :
                 body \in get_object(bucket, key, begin, end)}

\* (mutation) a path that is not cached is probed in the store
readProbe(path, length, offset) ==
    IF path \notin DOMAIN attrs
    THEN readFile(path, length, length, offset)
    ELSE LET attr == attrs[path]
         IN  IF attr.type = "d"
             THEN {[status |-> "ValueError", data |-> <<>>, reqs |-> <<>>]}
             ELSE readFile(path, attr.size, length, offset)

\* (mutation) a directory is read as an empty file
readDirAsEmpty(path, length, offset) ==
    IF path \notin DOMAIN attrs
    THEN {[status |-> "FileNotFoundError", data |-> <<>>, reqs |-> <<>>]}
    ELSE LET attr == attrs[path]
         IN  IF attr.type = "d"
             THEN {[status |-> "ok", data |-> <<>>, reqs |-> <<>>]}
             ELSE readFile(path, attr.size, length, offset)

\* the outcomes of read(path, length, offset, fh)
read(path, length, offset) ==
    IF path \notin DOMAIN attrs
    THEN {[status |-> "FileNotFoundError", data |-> <<>>, reqs |-> <<>>]}
    ELSE LET attr == attrs[path]
         IN  IF attr.type = "d"
             THEN {[status |-> "ValueError", data |-> <<>>, reqs |-> <<>>]}
             ELSE readFile(path, attr.size, length, offset)

Read(path, length, offset) ==
    /\ gen.state = "none"
    /\ \E r \in read(path, length, offset) :
          last' = Call("read", path, length, offset, r.status, r.data, <<>>, r.reqs)
    /\ UNCHANGED <<attrs, bucket, now, uid, gid, keys, gen, exp>>

-----------------------------------------------------------------------------
(* The other filesystem methods *)

\* the path the runtime calls them with: /f, in the runs whose bucket is
\* written under the key f
StubPaths == { p \in {<<"/", "f">>} : From(p, 1) \in keys }

\* a method that only logs and returns, or raises: nothing but the call's
\* outcome changes
Reply(op, path, status, data) ==
    /\ gen.state = "none"
    /\ last' = Call(op, path, 0, 0, status, data, <<>>, <<>>)
    /\ UNCHANGED <<attrs, bucket, now, uid, gid, keys, gen, exp>>

\* self._full_path is defined nowhere: evaluating the call raises
NoFullPath == "AttributeError"

Access(path) == Reply("access", path, "ok", <<>>)
Chmod(path) == Reply("chmod", path, "ok", <<>>)
Chown(path) == Reply("chown", path, "ok", <<>>)
Mknod(path) == Reply("mknod", path, NoFullPath, <<>>)
Rmdir(path) == Reply("rmdir", path, NoFullPath, <<>>)
Mkdir(path) == Reply("mkdir", path, NoFullPath, <<>>)
Unlink(path) == Reply("unlink", path, NoFullPath, <<>>)
Symlink(path) == Reply("symlink", path, NoFullPath, <<>>)
Rename(path) == Reply("rename", path, NoFullPath, <<>>)
Link(path) == Reply("link", path, NoFullPath, <<>>)
Utimens(path) == Reply("utimens", path, NoFullPath, <<>>)
Open(path) == Reply("open", path, "ok", <<0>>)

\* (mutation) create records the new file in the cache
CreateCaches(path) ==
    /\ gen.state = "none"
    /\ last' = Call("create", path, 0, 0, "ok", <<0>>, <<>>, <<>>)
    /\ attrs' = CacheInsert(attrs, path, [type |-> "f", size |-> 0, lastModified |-> now])
    /\ UNCHANGED <<bucket, now, uid, gid, keys, gen, exp>>

Create(path) == Reply("create", path, "ok", <<0>>)
Write(path) == Reply("write", path, "ok", <<0>>)
Truncate(path) == Reply("truncate", path, "ok", <<>>)
Flush(path) == Reply("flush", path, "ok", <<>>)
Release(path) == Reply("release", path, "ok", <<>>)
Fsync(path) == Reply("fsync", path, "ok", <<>>)

-----------------------------------------------------------------------------
(* The environment: the clock, and other clients of the bucket *)

Tick ==
    /\ gen.state = "none"
    /\ now < MaxTime
    /\ now' = now + 1
    /\ UNCHANGED <<attrs, bucket, uid, gid, keys, gen, exp, last>>

PutObject(k, size) ==
    /\ gen.state = "none"
    /\ k \in keys
    /\ bucket' = [x \in DOMAIN bucket \cup {k} |->
                    IF x = k THEN [size |-> size, last_modified |-> now]
                    ELSE bucket[x]]
    /\ exp' = [exp EXCEPT !.unchanged = @ /\ bucket' = bucket]
    /\ UNCHANGED <<attrs, now, uid, gid, keys, gen, last>>

DeleteObject(k) ==
    /\ gen.state = "none"
    /\ k \in DOMAIN bucket
    /\ bucket' = [x \in DOMAIN bucket \ {k} |-> bucket[x]]
    /\ exp' = [exp EXCEPT !.unchanged = FALSE]
    /\ UNCHANGED <<attrs, now, uid, gid, keys, gen, last>>

-----------------------------------------------------------------------------

Next ==
    \/ \E path \in GetattrPaths : Getattr(path)
    \/ \E path \in ReaddirPaths : ReaddirCall(path)
    \/ ReaddirBody
    \/ ReaddirListFails
    \/ ReaddirYield
    \/ ReaddirReturn
    \/ \E path \in ReadPaths : \E a \in ReadArgs(path) : Read(path, a[1], a[2])
    \/ \E path \in StubPaths :
          \/ Access(path) \/ Chmod(path) \/ Chown(path)
          \/ Mknod(path) \/ Rmdir(path) \/ Mkdir(path) \/ Unlink(path)
          \/ Symlink(path) \/ Rename(path) \/ Link(path) \/ Utimens(path)
          \/ Open(path) \/ Create(path) \/ Write(path) \/ Truncate(path)
          \/ Flush(path) \/ Release(path) \/ Fsync(path)
    \/ Tick
    \/ \E k \in keys : \E size \in SizesOf(k) : PutObject(k, size)
    \/ \E k \in keys : DeleteObject(k)

Spec == Init /\ [][Next]_vars

-----------------------------------------------------------------------------
(* Vocabulary of the properties *)

NotFound == "FileNotFoundError"
InvalidOperation == "ValueError"

\* d + "/" + p
Join(d, p) == d \o <<"/">> \o p

\* the path of the entry p of the directory d
ChildPath(d, p) == IF d = Root THEN <<"/">> \o p ELSE Join(d, p)

\* kind, size and modification time of a getattr reply agree with a record
SameAttributes(stat, record) ==
    /\ stat.st_mtime = record.lastModified
    /\ IF record.type = "d"
       THEN stat.st_mode = S_IFDIR_755
       ELSE stat.st_mode = S_IFREG_644 /\ stat.st_size = record.size

\* the latest call was getattr on a path that d + "/" + p names, p among
\* the given positions of the latest listing
GetattrOfListed(positions) ==
    /\ last.op = "getattr"
    /\ \E i \in positions : last.path = Join(exp.path, exp.dirents[i])

-----------------------------------------------------------------------------
(* C1 *)

\* C1, as stated: for every directory d, the root included, and every name
\* p that readdir(d) yielded, '.' and '..' included, getattr(d + "/" + p)
\* succeeds and returns the attributes of the record that expansion inserted.
C1_EveryYieldedName ==
    GetattrOfListed(1..Len(exp.dirents)) =>
        /\ last.status = "ok"
        /\ last.path \in DOMAIN exp.inserted
        /\ SameAttributes(last.stat[1], exp.inserted[last.path])

\* C1, amended: for every name p other than '.' and '..' that readdir(d)
\* yielded, getattr of the child's path (d + "/" + p, and "/" + p when d is
\* the root) succeeds and returns kind, size and modification time of the
\* record that expansion inserted for the child.
C1_ListedChildHasAttributes ==
    \A i \in 3..Len(exp.dirents) :
        (last.op = "getattr" /\ last.path = ChildPath(exp.path, exp.dirents[i])) =>
            /\ last.status = "ok"
            /\ last.path \in DOMAIN exp.inserted
            /\ SameAttributes(last.stat[1], exp.inserted[last.path])

\* a getattr on a listed file of ten bytes has answered
C1_Witness ==
    /\ last.op = "getattr"
    /\ last.status = "ok"
    /\ \E i \in 3..Len(exp.dirents) :
          /\ last.path = ChildPath(exp.path, exp.dirents[i])
          /\ exp.inserted[last.path].type = "f"
          /\ last.stat[1].st_size = 10

-----------------------------------------------------------------------------
(* C2 *)

\* C2: in every reachable state, whatever the bucket holds (keys that begin
\* with '/', directory-marker keys that end in '/'), the root path is in
\* the cache and its record is a directory.
C2_RootIsDirectory ==
    /\ Root \in DOMAIN attrs
    /\ attrs[Root].type = "d"

\* the root was listed while the bucket held a key that begins with '/'
C2_Witness ==
    /\ gen.state = "suspended"
    /\ gen.path = Root
    /\ <<"/", "x">> \in DOMAIN bucket

-----------------------------------------------------------------------------
(* C3 *)

\* C3: across every step the set of cached paths only grows.
C3_CacheGrowsMonotonically ==
    [][DOMAIN attrs \subseteq DOMAIN attrs']_vars

\* the root was listed again after the object of a cached path had gone:
\* the listing did not name /f, and /f is still cached
C3_Witness ==
    /\ gen.state = "suspended"
    /\ gen.path = Root
    /\ <<"f">> \notin DOMAIN bucket
    /\ <<"/", "f">> \in DOMAIN attrs
    /\ getattr(<<"/", "f">>).status = "ok"

-----------------------------------------------------------------------------
(* C4 *)

\* C4: getattr and read on a path that is not cached fail with NotFound and
\* send nothing to the store, even when the bucket holds the path's key.
C4_UncachedIsNotFound ==
    (last.op \in {"getattr", "read"} /\ last.path \notin DOMAIN attrs) =>
        /\ last.status = NotFound
        /\ last.reqs = <<>>

\* read was called on /f, which is not cached, while the bucket held f
C4_Witness ==
    /\ last.op = "read"
    /\ last.path = <<"/", "f">>
    /\ last.path \notin DOMAIN attrs
    /\ <<"f">> \in DOMAIN bucket
    /\ last.status = NotFound

-----------------------------------------------------------------------------
(* C5 *)

\* the store-relative prefix of a directory path
DirPrefix(d) == IF d = Root THEN <<>> ELSE Tail(d) \o <<"/">>

\* s up to its first '/', or the whole of s when it has none
FirstSegment(s) ==
    IF HasDelimiter(s) THEN DropLast(UpToDelimiter(s)) ELSE s

\* names of the immediate children of d under prefix + '/'-delimiter
\* semantics: the first segment of what follows the prefix in a key
ChildNames(b, d) ==
    { FirstSegment(From(k, Len(DirPrefix(d)))) :
        k \in {x \in DOMAIN b : StartsWith(x, DirPrefix(d))} } \ {<<>>}

\* the name stands for a common prefix: some key continues below it
IsPrefixChild(b, d, name) ==
    \E k \in DOMAIN b : StartsWith(k, DirPrefix(d) \o name \o <<"/">>)

\* the step in which a readdir generator runs its body
ExpansionStep == gen.state = "created" /\ gen'.state = "suspended"

-----------------------------------------------------------------------------
(* C6 *)

C6Bucket ==
    /\ DOMAIN bucket = { <<"a", "/", "b", ".", "t", "x", "t">>, <<"a", "/", "c", "/">> }
    /\ bucket[<<"a", "/", "b", ".", "t", "x", "t">>].size = 10

\* readdir("/a") has delivered all its names
C6Listed ==
    /\ gen.state = "suspended"
    /\ gen.path = <<"/", "a">>
    /\ gen.pos = Len(gen.dirents)

C6Cached ==
    /\ <<"/", "a", "/", "b", ".", "t", "x", "t">> \in DOMAIN attrs
    /\ attrs[<<"/", "a", "/", "b", ".", "t", "x", "t">>].type = "f"
    /\ attrs[<<"/", "a", "/", "b", ".", "t", "x", "t">>].size = 10
    /\ <<"/", "a", "/", "c">> \in DOMAIN attrs
    /\ attrs[<<"/", "a", "/", "c">>].type = "d"

\* C6, as stated: with the keys a/b.txt (size 10) and a/c/, readdir("/a")
\* returns '.', '..', 'b.txt', 'c' in that order, /a/b.txt is cached as File
\* of size 10 and /a/c as Directory.
C6_FileBeforeDirectory ==
    (C6Bucket /\ C6Listed) =>
        /\ gen.dirents = << <<".">>, <<".", ".">>, <<"b", ".", "t", "x", "t">>, <<"c">> >>
        /\ C6Cached

\* C6, amended: with the keys a/b.txt (size 10) and a/c/, readdir("/a")
\* returns '.', '..', 'c', 'b.txt' in that order (common prefixes come before
\* objects), /a/b.txt is cached as File of size 10 and /a/c as Directory.
C6_DirectoryBeforeFile ==
    (C6Bucket /\ C6Listed) =>
        /\ gen.dirents = << <<".">>, <<".", ".">>, <<"c">>, <<"b", ".", "t", "x", "t">> >>
        /\ C6Cached

C6_Witness == C6Bucket /\ C6Listed /\ Len(gen.dirents) = 4

-----------------------------------------------------------------------------
(* C7, C8, C9, C10: read *)

\* the latest call was a read of a cached file
ReadOfFile ==
    /\ last.op = "read"
    /\ last.path \in DOMAIN attrs
    /\ attrs[last.path].type = "f"

\* the object of the file read is in the bucket as the cache describes it
ObjectAsCached ==
    /\ From(last.path, 1) \in DOMAIN bucket
    /\ bucket[From(last.path, 1)].size = attrs[last.path].size
    /\ bucket[From(last.path, 1)].last_modified = attrs[last.path].lastModified

\* C7: a read of a cached File of size s > 0 at an offset o with 0 <= o < s
\* returns exactly the object's bytes o .. min(s, o + n) - 1, min(n, s - o)
\* of them.
C7_ReadReturnsTheRange ==
    (ReadOfFile /\ ObjectAsCached /\ last.status = "ok"
        /\ attrs[last.path].size > 0 /\ last.offset < attrs[last.path].size) =>
        LET s == attrs[last.path].size
        IN  /\ Len(last.data) = Min(last.length, s - last.offset)
            /\ last.data = SubSeq(Content(s), last.offset + 1,
                                  Min(s, last.offset + last.length))

\* C8: a read of a cached File of size s > 0 at an offset >= s returns zero
\* bytes and does not fail.
C8_ReadAtEndIsEmpty ==
    (ReadOfFile /\ ObjectAsCached /\ last.status # "StoreError"
        /\ attrs[last.path].size > 0 /\ last.offset >= attrs[last.path].size) =>
        /\ last.status = "ok"
        /\ last.data = <<>>

\* C9: a read of a cached File of size 0 returns an empty result and sends
\* no byte-range fetch to the store.
C9_EmptyFileIsNotFetched ==
    (ReadOfFile /\ attrs[last.path].size = 0) =>
        /\ last.status = "ok"
        /\ last.data = <<>>
        /\ last.reqs = <<>>

\* C10: a read of a path cached as Directory fails with InvalidOperation,
\* sends no byte-range fetch and leaves the cache unchanged.
C10_ReadOfDirectoryFails ==
    [][(last'.op = "read" /\ last'.path \in DOMAIN attrs
          /\ attrs[last'.path].type = "d") =>
        /\ last'.status = InvalidOperation
        /\ last'.reqs = <<>>
        /\ attrs' = attrs
    ]_vars

\* read was called on the root
C10_Witness ==
    /\ last.op = "read"
    /\ last.path = Root
    /\ last.status = InvalidOperation

-----------------------------------------------------------------------------
(* C11 *)

\* the step in which readdir(d) runs its body for the second time in
\* succession, the bucket being as the first time
RepeatedExpansionStep ==
    ExpansionStep /\ exp.path = gen.path /\ exp.unchanged

\* C11, as stated: the second of two successive readdir(d) on an unchanged
\* bucket yields the same child set, and afterwards every child's record,
\* File or Directory, equals the one the first call inserted, however much
\* time has passed.
C11_RecordsUnchanged ==
    [][RepeatedExpansionStep =>
        /\ Range(gen'.dirents) = Range(exp.dirents)
        /\ \A p \in DOMAIN exp.inserted : attrs'[p] = exp.inserted[p]
    ]_vars

\* C11, amended: the second call yields the same child set, every File
\* child's record equals the one the first call inserted, and every
\* Directory child's record is a Directory record whose modification time is
\* the time of the second call (equal to the first one's only when both calls
\* fall into the same second).
C11_FilesUnchangedDirectoriesRestamped ==
    [][RepeatedExpansionStep =>
        /\ Range(gen'.dirents) = Range(exp.dirents)
        /\ DOMAIN exp'.inserted = DOMAIN exp.inserted
        /\ \A p \in DOMAIN exp.inserted :
              IF exp.inserted[p].type = "f"
              THEN attrs'[p] = exp.inserted[p]
              ELSE attrs'[p] = [type |-> "d", lastModified |-> now]
    ]_vars

\* /a, with a file and a directory below it, was listed, and a second
\* later, the bucket unchanged, readdir("/a") is called again
C11_Witness ==
    /\ gen.state = "created"
    /\ gen.path = <<"/", "a">>
    /\ exp.path = gen.path
    /\ exp.unchanged
    /\ Len(exp.dirents) = 4
    /\ exp.inserted[<<"/", "a", "/", "c">>].lastModified < now

-----------------------------------------------------------------------------
(* C12 *)

MutatingOps ==
    {"write", "truncate", "chmod", "chown", "create", "mknod", "mkdir", "rmdir",
     "unlink", "rename", "symlink", "link", "utimens"}

\* C12: every mutating call completes with success or with the unsupported
\* signal, never with an unhandled failure, and write reports zero bytes
\* written.
C12_MutatingCallsComplete ==
    (last.op \in MutatingOps) =>
        /\ last.status \in {"ok", "Unsupported"}
        /\ (last.op = "write" => last.data = <<0>>)

-----------------------------------------------------------------------------
(* C13 *)

\* C13: a call that fails leaves the cache exactly as it was, a readdir whose
\* listing fails and a read whose fetch fails included, and the adapter is
\* ready for the next call.
C13_FailedCallKeepsCache ==
    [][(last' # last /\ last'.status \notin {"ok", "running"}) =>
        /\ attrs' = attrs
        /\ gen'.state = "none"
    ]_vars

\* a listing failed while the cache held more than the root
C13_Witness ==
    /\ last.op = "readdir"
    /\ last.status = "StoreError"
    /\ Cardinality(DOMAIN attrs) > 1

-----------------------------------------------------------------------------
(* C14 *)

FrameOps ==
    {"getattr", "read", "open", "create", "write", "truncate", "chmod", "chown",
     "access", "flush", "release", "fsync"}

\* C14: getattr, read, open, create, write, truncate, chmod, chown, access,
\* flush, release and fsync leave every cached path and record unchanged,
\* whether they succeed or fail.
C14_OnlyReaddirWritesCache ==
    [][(last' # last /\ last'.op \in FrameOps) => attrs' = attrs]_vars

\* create was called on a path that is not cached, and it still is not
C14_Witness ==
    /\ last.op = "create"
    /\ last.path \notin DOMAIN attrs

-----------------------------------------------------------------------------
(* C15 *)

\* the one listing request readdir(d) is to send
ListingOf(d) ==
    <<[call |-> "list_objects", prefix |-> DirPrefix(d), delimiter |-> "/"]>>

\* C15: a consumed readdir(path) sends exactly one listing request, with
\* delimiter '/' and the prefix '' for the root and else the path without its
\* leading '/' and with a trailing '/'; a generator that was not started has
\* sent none.
C15_OneListingRequest ==
    /\ gen.state = "created" => gen.reqs = <<>>
    /\ gen.state = "suspended" => gen.reqs = ListingOf(gen.path)
    /\ (last.op = "readdir" /\ last.status # "running") =>
          last.reqs = ListingOf(last.path)

\* readdir("/a/c") was consumed to its end
C15_Witness ==
    /\ last.op = "readdir"
    /\ last.status = "ok"
    /\ last.path = <<"/", "a", "/", "c">>
    /\ Len(last.reqs) = 1

-----------------------------------------------------------------------------
(* C16 *)

NoDuplicates(s) == \A i, j \in 1..Len(s) : s[i] = s[j] => i = j

\* C16: no name occurs twice in a readdir result, '.' and '..' included, and
\* a name that is both a common prefix and an object of the listing is
\* yielded once, with the Directory record as the one this expansion
\* inserted.
C16_FirstSeenWins ==
    gen.state = "suspended" =>
        /\ NoDuplicates(gen.dirents)
        /\ \A i \in 3..Len(gen.dirents) :
              (/\ IsPrefixChild(bucket, gen.path, gen.dirents[i])
               /\ DirPrefix(gen.path) \o gen.dirents[i] \in DOMAIN bucket) =>
                    exp.inserted[ChildPath(gen.path, gen.dirents[i])].type = "d"

\* the root's names were all delivered, a among them, the bucket holding
\* both the object a and a key below a/
C16_Witness ==
    /\ gen.state = "suspended"
    /\ gen.path = Root
    /\ gen.pos = Len(gen.dirents)
    /\ <<"a">> \in Range(gen.dirents)
    /\ <<"a">> \in DOMAIN bucket
    /\ IsPrefixChild(bucket, Root, <<"a">>)

-----------------------------------------------------------------------------
(* C17 *)

\* C17: from the moment the first name of a readdir result is delivered, the
\* records of all children of the listing are in the cache, as this
\* expansion inserted them; before that moment no name is delivered.
C17_InsertsBeforeFirstName ==
    /\ gen.state = "created" => gen.pos = 0
    /\ (gen.state = "suspended" /\ gen.pos >= 1) =>
          /\ \A i \in 3..Len(gen.dirents) :
                ChildPath(gen.path, gen.dirents[i]) \in DOMAIN exp.inserted
          /\ \A p \in DOMAIN exp.inserted :
                p \in DOMAIN attrs /\ attrs[p] = exp.inserted[p]

\* '.' of readdir("/a") is delivered, two children are cached
C17_Witness ==
    /\ gen.state = "suspended"
    /\ gen.pos = 1
    /\ gen.path = <<"/", "a">>
    /\ Len(gen.dirents) = 4
    /\ <<"/", "a", "/", "c">> \in DOMAIN attrs

-----------------------------------------------------------------------------
(* C18 *)

\* C18: every cached path starts with '/', and none but the root ends with
\* '/'; a Directory path an expansion inserts is '/' and a common prefix of
\* the bucket without its trailing '/', a File path is '/' and an object key.
C18_CachedPathsAreAbsolute ==
    /\ \A p \in DOMAIN attrs :
          /\ Len(p) >= 1
          /\ p[1] = "/"
          /\ (p # Root => p[Len(p)] # "/")
    /\ gen.state = "suspended" =>
          \A p \in DOMAIN exp.inserted :
              IF exp.inserted[p].type = "d"
              THEN \E k \in DOMAIN bucket : StartsWith(k, From(p, 1) \o <<"/">>)
              ELSE From(p, 1) \in DOMAIN bucket

\* /a/c was listed while the bucket held the marker key a/c/
C18_Witness ==
    /\ gen.state = "suspended"
    /\ gen.path = <<"/", "a", "/", "c">>
    /\ <<"a", "/", "c", "/">> \in DOMAIN bucket
    /\ <<"/", "a", "/", "c">> \in DOMAIN attrs

-----------------------------------------------------------------------------
(* C19 *)

\* C19: readdir does not look its own argument up in the cache: it never
\* fails with NotFound, and whatever the cache says of the path, Directory,
\* File or nothing, a readdir that delivers names has sent its listing and
\* has the listed children in the cache.
C19_ReaddirIgnoresCache ==
    /\ last.op = "readdir" => last.status \in {"running", "ok", "StoreError"}
    /\ gen.state = "suspended" =>
          /\ Len(gen.reqs) = 1
          /\ \A i \in 3..Len(gen.dirents) :
                ChildPath(gen.path, gen.dirents[i]) \in DOMAIN attrs

\* /a is cached as File, and readdir("/a") has inserted /a/b.txt below it
C19_Witness ==
    /\ gen.state = "suspended"
    /\ gen.path = <<"/", "a">>
    /\ <<"/", "a">> \in DOMAIN attrs
    /\ attrs[<<"/", "a">>].type = "f"
    /\ <<"/", "a", "/", "b", ".", "t", "x", "t">> \in DOMAIN exp.inserted

====
